---- MODULE Spec2Model ----
(***************************************************************************)
(* The dashboard's panel pipeline: loadMetric, makeLineChart,              *)
(* setMetaAndDownloads / setMeta and the orchestrating async function, in  *)
(* its two variants (src/site/assets/main.js, four panels, themed with     *)
(* download links; src/unnamed/part_000, two panels, plain).               *)
(***************************************************************************)
EXTENDS Naturals, Sequences, FiniteSets, TLC

VARIABLES
  variant,    \* which of the two scripts the page runs
  metaEl,     \* DOM: panel -> whether its metadata container exists
  stalled,    \* transport: the panels whose fetch never settles
  cur,        \* orchestrator: index in Order of the try block being run
  phase,      \* orchestrator: "start" | "awaitFetch" | "awaitJson" | "done" | "rejected"
  status,     \* panel -> "Unrendered" | "Loading" | "Rendered" | "Failed"
  requests,   \* transport: the URLs fetched so far, in order
  res,        \* the Response loadMetric holds while awaiting res.json(), or <<>>
  returned,   \* panel -> <<>> or <<value loadMetric returned to that panel>>
  chart,      \* panel -> <<>> or <<configuration handed to Chart on its canvas>>
  meta,       \* panel -> content of its metadata container
  caught,     \* panel -> <<>> or <<exception its catch block received>>
  fetched,    \* panel -> "none" | "ok" | "notok" | "rejected": how its fetch settled
  console,    \* the errors written with console.error, in order
  payload,    \* setMeta under test: the payload it is applied to
  described   \* setMeta under test: <<>> or <<its outcome>>

vars == <<variant, metaEl, stalled, cur, phase, status, requests, res, returned,
          chart, meta, caught, fetched, console, payload, described>>

(***************************************************************************)
(* Bounds of the model.                                                    *)
(***************************************************************************)
\* longest notes list of a payload
MaxNotes == 2
\* longest source.human_url of a payload, in characters
MaxUrlLen == 2

(***************************************************************************)
(* The panels of each script, in the order of their try blocks.            *)
(***************************************************************************)
Variants == {"themed", "plain"}

Order(v) ==
  IF v = "themed"
    THEN <<"ypll", "uninsured", "broadband", "renewables">>
    ELSE <<"broadband", "renewables">>

Panels(v) == {Order(v)[i] : i \in 1..Len(Order(v))}

Slug(p) ==
  CASE p = "ypll" -> "public_health_ypll75_rate"
    [] p = "uninsured" -> "public_health_uninsured_share"
    [] p = "broadband" -> "broadband_adoption_households_share"
    [] p = "renewables" -> "electricity_renewables_generation_share"

Label(p) ==
  CASE p = "ypll" -> "YPLL"
    [] p = "uninsured" -> "Uninsured"
    [] p = "broadband" -> "Broadband"
    [] p = "renewables" -> "Renewables"

\* `data/v1/${slug}.json` and `data/v1/csv/${slug}.csv`
JsonUrl(slug) == <<"data/v1/", slug, ".json">>
CsvUrl(slug) == <<"data/v1/csv/", slug, ".csv">>

(***************************************************************************)
(* Values.  An optional value is <<>> (absent) or <<v>>.  A field of the   *)
(* snapshot stored for a slug is the pair <<slug, field>>, so that data    *)
(* shows which snapshot it came from; Undefined is a missing field.        *)
(***************************************************************************)
Undefined == <<>>
Field(slug, name) == <<slug, name>>

\* the characters a human_url is made of: an ordinary one and the double quote
UrlChars == {"h", "\""}

RECURSIVE SeqsUpTo(_, _)
SeqsUpTo(S, n) ==
  IF n = 0 THEN {<<>>}
  ELSE LET shorter == SeqsUpTo(S, n - 1)
       IN shorter \cup {Append(q, x) : q \in shorter, x \in S}

NoSource == [present |-> FALSE, human_url |-> <<>>]
SourceWith(u) == [present |-> TRUE, human_url |-> u]

NoNotes == [kind |-> "absent", items |-> <<>>]
NotesList(items) == [kind |-> "list", items |-> items]
\* a truthy value that is no array (a string, a number, an object)
NotesScalar == [kind |-> "scalar", items |-> <<>>]

\* the object {} : every field missing
EmptyObject ==
  [years |-> Undefined, hawaii |-> Undefined, other_states_avg |-> Undefined,
   title |-> Undefined, unit |-> Undefined, last_updated_utc |-> Undefined,
   source |-> NoSource, notes |-> NoNotes]

\* a snapshot of `slug` with every required field, and the given optional ones
Snapshot(slug, hasUnit, source, notes) ==
  [years |-> Field(slug, "years"), hawaii |-> Field(slug, "hawaii"),
   other_states_avg |-> Field(slug, "other_states_avg"),
   title |-> Field(slug, "title"),
   unit |-> IF hasUnit THEN Field(slug, "unit") ELSE Undefined,
   last_updated_utc |-> Field(slug, "last_updated_utc"),
   source |-> source, notes |-> notes]

\* the MetricDocument shape: the required fields are there, notes is a list
RequiredFields(d) ==
  /\ d.years # Undefined
  /\ d.hawaii # Undefined
  /\ d.other_states_avg # Undefined
  /\ d.title # Undefined
  /\ d.last_updated_utc # Undefined

IsMetricDocument(d) == RequiredFields(d) /\ d.notes.kind # "scalar"

(***************************************************************************)
(* What the transport can serve at data/v1/<slug>.json: a body that is no  *)
(* JSON, the JSON value null, or a JSON object.                            *)
(***************************************************************************)
Garbage == [kind |-> "garbage", doc |-> EmptyObject]
JsonNull == [kind |-> "null", doc |-> EmptyObject]
JsonObject(d) == [kind |-> "object", doc |-> d]

Snapshots(slug) ==
  { Snapshot(slug, TRUE, SourceWith(<< <<"h">> >>), NotesList(<<"n1">>)),
    Snapshot(slug, FALSE, NoSource, NotesScalar),
    EmptyObject }

Bodies(slug) == {Garbage, JsonNull} \cup {JsonObject(d) : d \in Snapshots(slug)}

\* the slug a URL of the form data/v1/<slug>.json names
SlugOf(url) == url[2]

(***************************************************************************)
(* Errors.                                                                 *)
(***************************************************************************)
LoadError(slug) == [name |-> "Error", message |-> <<"Failed to load ", slug>>]
NetworkError == [name |-> "TypeError", message |-> <<"Failed to fetch", "">>]
SyntaxError == [name |-> "SyntaxError", message |-> <<"Unexpected token", "">>]
TypeError(what) == [name |-> "TypeError", message |-> <<"Cannot read properties of ", what>>]

(***************************************************************************)
(* makeLineChart: the configuration handed to the charting library.        *)
(***************************************************************************)
makeLineChart(d) ==
  [type |-> "line", labels |-> d.years,
   datasets |-> << [label |-> "Hawaii", data |-> d.hawaii],
                   [label |-> "Other U.S. States (avg)", data |-> d.other_states_avg] >>,
   title |-> d.title, unit |-> d.unit]

(***************************************************************************)
(* setMetaAndDownloads / setMeta: the markup written into the container,   *)
(* as the browser parses it.                                               *)
(***************************************************************************)
\* `src.human_url ? ... : ...`: a missing field and the empty string are falsy
Truthy(u) == u # <<>> /\ u[1] # <<>>

\* the value of an attribute written as href="${url}": it ends at the first
\* double quote of the text
RECURSIVE AttrValue(_)
AttrValue(chars) ==
  IF chars = <<>> \/ Head(chars) = "\"" THEN <<>>
  ELSE <<Head(chars)>> \o AttrValue(Tail(chars))

Anchor(href) == [kind |-> "link", href |-> href, text |-> "Source"]
PlainText(t) == [kind |-> "text", href |-> <<>>, text |-> t]

\* srcLine testing that human_url is there, not that it is truthy
srcLineIfPresent(source) ==
  IF source.human_url # <<>>
    THEN Anchor(AttrValue(source.human_url[1]))
    ELSE PlainText("Source: federal API")

srcLine(source) ==
  IF Truthy(source.human_url)
    THEN Anchor(AttrValue(source.human_url[1]))
    ELSE PlainText("Source: federal API")

\* new Date(ts).toLocaleString()
toLocaleString(ts) == IF ts = Undefined THEN <<"Invalid Date">> ELSE <<"local time of">> \o ts

\* (payload.notes || []).map(...) throws on a truthy value that has no map
NotesThrow(notes) == notes.kind = "scalar"

Html(src, updated, downloads, items) ==
  [kind |-> "html", text |-> <<>>, src |-> <<src>>, updated |-> updated,
   downloads |-> downloads, list |-> items]

\* the container's content before any script has written it
Untouched ==
  [kind |-> "untouched", text |-> <<>>, src |-> <<>>, updated |-> <<>>,
   downloads |-> <<>>, list |-> <<>>]

\* the text the catch block writes into the panel's metadata container
Fallback(p) ==
  [kind |-> "text", text |-> <<Label(p), " data unavailable.">>, src |-> <<>>,
   updated |-> <<>>, downloads |-> <<>>, list |-> <<>>]

\* <<>> when the call throws (no container, or notes has no map), else
\* <<the container's new content>>
setMetaAndDownloads(slug, hasEl, d) ==
  IF NotesThrow(d.notes) \/ ~hasEl THEN <<>>
  ELSE << Html(srcLine(d.source), toLocaleString(d.last_updated_utc),
               <<JsonUrl(slug), CsvUrl(slug)>>, d.notes.items) >>

setMeta(hasEl, d) ==
  IF NotesThrow(d.notes) \/ ~hasEl THEN <<>>
  ELSE << Html(srcLine(d.source), toLocaleString(d.last_updated_utc),
               <<>>, d.notes.items) >>

describe(v, slug, hasEl, d) ==
  IF v = "themed" THEN setMetaAndDownloads(slug, hasEl, d) ELSE setMeta(hasEl, d)

(***************************************************************************)
(* One try block, from the value loadMetric returned: the chart drawn (if  *)
(* any), the markup written (if any) and the exception thrown (if any).    *)
(* canvasOk: the canvas exists and the charting library accepts the call.  *)
(***************************************************************************)
TryBlock(v, p, body, canvasOk) ==
  IF ~canvasOk \/ body.kind = "null"
    THEN [chart |-> <<>>, html |-> <<>>, err |-> <<TypeError("null")>>]
    ELSE LET html == describe(v, Slug(p), metaEl[p], body.doc)
         IN [chart |-> <<makeLineChart(body.doc)>>,
             html |-> html,
             err |-> IF html = <<>> THEN <<TypeError("undefined")>> ELSE <<>>]

(***************************************************************************)
(* The orchestrator: one async function running the try blocks of Order in *)
(* turn, suspended at the two awaits inside loadMetric.  A step is what    *)
(* runs between two awaits: the rest of one try/catch statement and the    *)
(* start of the next, up to its fetch.                                     *)
(***************************************************************************)
Cur == Order(variant)[cur]

\* AfterTry with a `return` at the end of the try/catch statement
AfterTryReturn(p, outcome) ==
  /\ cur' = cur + 1
  /\ status' = [status EXCEPT ![p] = outcome]
  /\ requests' = requests
  /\ phase' = "done"

\* leaving panel p's try/catch statement with `outcome`: on to the next try
\* block, whose loadMetric(slug) issues its fetch, or to the end
AfterTry(p, outcome) ==
  /\ cur' = cur + 1
  /\ IF cur < Len(Order(variant))
       THEN LET next == Order(variant)[cur + 1]
            IN /\ status' = [status EXCEPT ![p] = outcome, ![next] = "Loading"]
               /\ requests' = Append(requests, JsonUrl(Slug(next)))
               /\ phase' = "awaitFetch"
       ELSE /\ status' = [status EXCEPT ![p] = outcome]
            /\ requests' = requests
            /\ phase' = "done"

\* `if (t)` before the write of the fallback text: only in main.js
Guarded(v) == v = "themed"

\* CatchBlock with a retry: the failed panel's snapshot is fetched again
CatchBlockRetry(p, e) ==
  /\ caught' = [caught EXCEPT ![p] = <<e>>]
  /\ meta' = IF metaEl[p] THEN [meta EXCEPT ![p] = Fallback(p)] ELSE meta
  /\ console' = Append(console, e)
  /\ IF Len(requests) <= Len(Order(variant))
       THEN /\ requests' = Append(requests, JsonUrl(Slug(p)))
            /\ status' = [status EXCEPT ![p] = "Loading"]
            /\ phase' = "awaitFetch"
            /\ cur' = cur
       ELSE AfterTry(p, "Failed")

\* the catch block of panel p receiving e.  In the plain script, with no
\* container, the write of textContent throws out of the catch block: the
\* async function's promise is rejected and nothing after it runs.
CatchBlock(p, e) ==
  /\ caught' = [caught EXCEPT ![p] = <<e>>]
  /\ IF metaEl[p] \/ Guarded(variant)
       THEN /\ meta' = IF metaEl[p] THEN [meta EXCEPT ![p] = Fallback(p)] ELSE meta
            /\ console' = Append(console, e)
            /\ AfterTry(p, "Failed")
       ELSE /\ UNCHANGED <<meta, console, cur, requests>>
            /\ status' = [status EXCEPT ![p] = "Failed"]
            /\ phase' = "rejected"

\* the rest of panel p's try block once loadMetric has returned
Settle(p, out) ==
  /\ chart' = [chart EXCEPT ![p] = out.chart]
  /\ IF out.err = <<>>
       THEN /\ meta' = [meta EXCEPT ![p] = out.html[1]]
            /\ UNCHANGED <<caught, console>>
            /\ AfterTry(p, "Rendered")
       ELSE CatchBlock(p, out.err[1])

\* Start with the `await` before the first loadMetric(slug) left out: the
\* second try block is entered while the first fetch is in flight
StartNoAwait ==
  /\ phase = "start"
  /\ requests' = <<JsonUrl(Slug(Order(variant)[1])), JsonUrl(Slug(Order(variant)[2]))>>
  /\ status' = [status EXCEPT ![Order(variant)[1]] = "Loading",
                              ![Order(variant)[2]] = "Loading"]
  /\ cur' = 2
  /\ phase' = "awaitFetch"
  /\ UNCHANGED <<variant, metaEl, stalled, res, returned, chart, meta,
                 caught, fetched, console, payload, described>>

\* the async function is called: the first try block is entered and its
\* loadMetric(slug) issues its fetch
Start ==
  /\ phase = "start"
  /\ requests' = <<JsonUrl(Slug(Cur))>>
  /\ status' = [status EXCEPT ![Cur] = "Loading"]
  /\ phase' = "awaitFetch"
  /\ UNCHANGED <<variant, metaEl, stalled, cur, res, returned, chart, meta,
                 caught, fetched, console, payload, described>>

\* Throws with the status check left out
ThrowsNever(r) == FALSE

\* `if (!res.ok) throw new Error(...)`
Throws(r) == ~r.ok

\* OnResponse with a second read after a non-success status
OnResponseRetry(p, r) ==
  /\ fetched' = [fetched EXCEPT ![p] = IF r.ok THEN "ok" ELSE "notok"]
  /\ IF ~r.ok /\ Len(requests) <= Len(Order(variant))
       THEN /\ requests' = Append(requests, r.url)
            /\ UNCHANGED <<cur, phase, status, res, returned, chart, meta, caught, console>>
       ELSE IF ~r.ok
         THEN /\ CatchBlock(p, LoadError(SlugOf(r.url)))
              /\ UNCHANGED <<res, returned, chart>>
         ELSE /\ res' = <<r>>
              /\ phase' = "awaitJson"
              /\ UNCHANGED <<requests, cur, status, returned, chart, meta, caught, console>>

\* loadMetric resumed with the Response r of its fetch
OnResponse(p, r) ==
  /\ fetched' = [fetched EXCEPT ![p] = IF r.ok THEN "ok" ELSE "notok"]
  /\ IF Throws(r)
       THEN /\ CatchBlock(p, LoadError(SlugOf(r.url)))
            /\ UNCHANGED <<res, returned, chart>>
       ELSE /\ res' = <<r>>
            /\ phase' = "awaitJson"
            /\ UNCHANGED <<requests, cur, status, returned, chart, meta, caught, console>>

\* the fetch of panel Cur settles: rejected by the network, or with a Response
FetchSettles(outcome) ==
  /\ phase = "awaitFetch"
  /\ Cur \notin stalled
  /\ IF outcome = "rejected"
       THEN /\ fetched' = [fetched EXCEPT ![Cur] = "rejected"]
            /\ CatchBlock(Cur, NetworkError)
            /\ UNCHANGED <<res, returned, chart>>
       ELSE OnResponse(Cur, [ok |-> outcome = "ok", url |-> requests[Len(requests)]])
  /\ UNCHANGED <<variant, metaEl, stalled, payload, described>>

\* res.json() settles with the body served at the Response's URL, and the
\* try block runs to its end
JsonSettles(body, canvasOk) ==
  /\ phase = "awaitJson"
  /\ body \in Bodies(SlugOf(res[1].url))
  /\ res' = <<>>
  /\ IF body.kind = "garbage"
       THEN /\ CatchBlock(Cur, SyntaxError)
            /\ UNCHANGED <<returned, chart>>
       ELSE /\ returned' = [returned EXCEPT ![Cur] = <<body>>]
            /\ Settle(Cur, TryBlock(variant, Cur, body, canvasOk))
  /\ UNCHANGED <<variant, metaEl, stalled, fetched, payload, described>>

Init ==
  /\ variant \in Variants
  /\ metaEl \in [Panels(variant) -> BOOLEAN]
  /\ stalled \in SUBSET Panels(variant)
  /\ cur = 1
  /\ phase = "start"
  /\ status = [p \in Panels(variant) |-> "Unrendered"]
  /\ requests = <<>>
  /\ res = <<>>
  /\ returned = [p \in Panels(variant) |-> <<>>]
  /\ chart = [p \in Panels(variant) |-> <<>>]
  /\ meta = [p \in Panels(variant) |-> Untouched]
  /\ caught = [p \in Panels(variant) |-> <<>>]
  /\ fetched = [p \in Panels(variant) |-> "none"]
  /\ console = <<>>
  /\ payload = EmptyObject
  /\ described = <<>>

Next ==
  \/ Start
  \/ \E outcome \in {"ok", "notok", "rejected"} : FetchSettles(outcome)
  \/ \E slug \in {Slug(p) : p \in Panels(variant)}, canvasOk \in BOOLEAN :
       \E body \in Bodies(slug) : JsonSettles(body, canvasOk)

Spec == Init /\ [][Next]_vars

\* the event loop runs every continuation that is ready, and the transport
\* settles every fetch except those of the stalled panels
FairSpec == Spec /\ WF_vars(Next)

(***************************************************************************)
(* setMetaAndDownloads / setMeta on their own: applied once to a payload   *)
(* drawn from the bounded set Payloads.                                    *)
(***************************************************************************)
NoteTexts == {"n1", "n2"}

Sources ==
  {NoSource, SourceWith(<<>>)}
    \cup {SourceWith(<<u>>) : u \in SeqsUpTo(UrlChars, MaxUrlLen)}

Notes == {NoNotes, NotesScalar} \cup {NotesList(q) : q \in SeqsUpTo(NoteTexts, MaxNotes)}

Payloads ==
  {[d EXCEPT !.source = s, !.notes = n] :
     d \in {Snapshot("m", TRUE, NoSource, NoNotes), EmptyObject},
     s \in Sources, n \in Notes}

InitDescribe ==
  /\ variant \in Variants
  /\ metaEl = [p \in Panels(variant) |-> TRUE]
  /\ stalled = {}
  /\ cur = 1
  /\ phase = "start"
  /\ status = [p \in Panels(variant) |-> "Unrendered"]
  /\ requests = <<>>
  /\ res = <<>>
  /\ returned = [p \in Panels(variant) |-> <<>>]
  /\ chart = [p \in Panels(variant) |-> <<>>]
  /\ meta = [p \in Panels(variant) |-> Untouched]
  /\ caught = [p \in Panels(variant) |-> <<>>]
  /\ fetched = [p \in Panels(variant) |-> "none"]
  /\ console = <<>>
  /\ payload \in Payloads
  /\ described = <<>>

Describe(p, hasEl) ==
  /\ described = <<>>
  /\ described' = << [panel |-> p, el |-> hasEl,
                      html |-> describe(variant, Slug(p), hasEl, payload)] >>
  /\ UNCHANGED <<variant, metaEl, stalled, cur, phase, status, requests, res,
                 returned, chart, meta, caught, fetched, console, payload>>

NextDescribe == \E p \in Panels(variant), hasEl \in BOOLEAN : Describe(p, hasEl)

DescribeSpec == InitDescribe /\ [][NextDescribe]_vars

(***************************************************************************)
(* Vocabulary of the properties.                                           *)
(***************************************************************************)
AllPanels == Panels("themed") \cup Panels("plain")

Terminal(p) == p \in DOMAIN status /\ status[p] \in {"Rendered", "Failed"}

\* the place of panel p in Order
Pos(p) == CHOOSE i \in 1..Len(Order(variant)) : Order(variant)[i] = p

\* the panels whose try block comes before that of p
Earlier(p) == {Order(variant)[i] : i \in 1..(Pos(p) - 1)}

\* how many times the snapshot of panel p has been fetched
Launches(p) == Cardinality({i \in 1..Len(requests) : requests[i] = JsonUrl(Slug(p))})

\* the async function has returned, or its promise was rejected
Settled == phase \in {"done", "rejected"}

(***************************************************************************)
(* Properties.                                                             *)
(***************************************************************************)

\* C1: failure isolation.  Once the async function has settled, a failure of
\* panel p has kept no other panel q from being loaded: q is Rendered, or
\* Failed through an exception of its own.
C1_FailureIsolation ==
  \A p \in Panels(variant), q \in Panels(variant) :
    (p # q /\ status[p] = "Failed" /\ Settled)
      => /\ Terminal(q)
         /\ status[q] = "Failed" => caught[q] # <<>>

\* C2 as stated: the panels are launched without waiting on one another, so
\* by the time the fetch of a panel p has completed or failed the fetch of
\* every other panel q has been issued.
C2_LaunchedTogether ==
  \A p \in Panels(variant), q \in Panels(variant) :
    fetched[p] # "none" => status[q] # "Unrendered"

\* C2 as amended: the panels are launched one at a time, in page order.  No
\* two panels are Loading in the same state, and a panel's fetch is issued
\* only once every panel before it is Rendered or Failed.
C2_LaunchedInTurn ==
  /\ \A p \in Panels(variant), q \in Panels(variant) :
       (status[p] = "Loading" /\ status[q] = "Loading") => p = q
  /\ \A q \in Panels(variant) :
       status[q] # "Unrendered" => \A p \in Earlier(q) : Terminal(p)

C2_Witness ==
  /\ variant = "themed"
  /\ status["uninsured"] = "Loading"
  /\ status["ypll"] = "Rendered"
  /\ status["broadband"] = "Unrendered"

\* C3 as stated: when the fetch of panel p never settles, every other panel
\* q whose transport does respond eventually is Rendered or Failed.
C3_StallsOnlyItself ==
  <>(\A p \in stalled, q \in Panels(variant) \ stalled : p # q => Terminal(q))

\* C3 as amended: when the fetch of panel p never settles, every panel
\* before p eventually is Rendered or Failed, provided its own transport and
\* that of the panels before it respond; every panel after p stays
\* Unrendered for ever.
C3_StallsTheRest ==
  /\ <>(\A p \in stalled, q \in Panels(variant) :
          (q \in Earlier(p) /\ (Earlier(q) \cup {q}) \cap stalled = {}) => Terminal(q))
  /\ [](\A p \in stalled, q \in Panels(variant) :
          p \in Earlier(q) => status[q] = "Unrendered")

C3_Witness ==
  /\ variant = "themed"
  /\ "broadband" \in stalled
  /\ status["ypll"] = "Rendered"
  /\ status["uninsured"] = "Failed"
  /\ status["broadband"] = "Loading"
  /\ status["renewables"] = "Unrendered"

\* the steps of one panel's state machine
PanelStep(p) ==
  \/ status'[p] = status[p]
  \/ status[p] = "Unrendered" /\ status'[p] = "Loading"
  \/ status[p] = "Loading" /\ status'[p] \in {"Rendered", "Failed"}

\* C4 as stated (main.js): every panel moves Unrendered -> Loading ->
\* {Rendered | Failed} and in no other way, and its pipeline is started
\* exactly once: never twice, and eventually once.
C4_ExactlyOnce ==
  /\ [][variant = "themed" => \A p \in Panels(variant) : PanelStep(p)]_vars
  /\ [](variant = "themed" => \A p \in Panels(variant) : Launches(p) <= 1)
  /\ <>(variant = "themed" => \A p \in Panels(variant) : Launches(p) = 1)

\* C4 as amended: every panel moves Unrendered -> Loading -> {Rendered |
\* Failed} and in no other way; its pipeline is started at most once, exactly
\* once if it has left Unrendered, and every pipeline has been started once
\* the async function has returned.
C4_AtMostOnce ==
  /\ [][\A p \in Panels(variant) : PanelStep(p)]_vars
  /\ [](\A p \in Panels(variant) :
          /\ Launches(p) <= 1
          /\ status[p] # "Unrendered" <=> Launches(p) = 1)
  /\ [](phase = "done" => \A p \in Panels(variant) : Launches(p) = 1 /\ Terminal(p))

C4_Witness ==
  /\ variant = "themed"
  /\ phase = "done"
  /\ status["ypll"] = "Failed"
  /\ status["renewables"] = "Rendered"

\* C5: a panel that is Failed shows the fallback text, and nothing else, in
\* its own metadata container (if the page has one), the exception its catch
\* block received has been logged, and the step that made it Failed wrote no
\* other panel's container.
C5_FailedIsVisible ==
  /\ [](\A p \in Panels(variant) :
          status[p] = "Failed" =>
            /\ metaEl[p] => meta[p] = Fallback(p)
            /\ \E i \in 1..Len(console) : <<console[i]>> = caught[p])
  /\ [][\A p \in Panels(variant) :
          (status[p] # "Failed" /\ status'[p] = "Failed") =>
            \A q \in Panels(variant) \ {p} : meta'[q] = meta[q]]_vars

\* C6: loadMetric reads data/v1/<slug>.json once.  The i-th read is that of
\* the i-th panel's snapshot, no snapshot is read twice, and a response with
\* a non-success status fails the panel at once, with the load error and
\* with nothing returned.
C6_SingleRead ==
  /\ Len(requests) <= Len(Order(variant))
  /\ \A i \in 1..Len(requests) : requests[i] = JsonUrl(Slug(Order(variant)[i]))
  /\ \A p \in Panels(variant) :
       /\ Launches(p) <= 1
       /\ fetched[p] # "none" => Launches(p) = 1
       /\ fetched[p] = "notok" =>
            /\ returned[p] = <<>>
            /\ status[p] = "Failed"
            /\ caught[p] = <<LoadError(Slug(p))>>

C6_Witness ==
  /\ variant = "themed"
  /\ phase = "done"
  /\ fetched["ypll"] = "notok"
  /\ fetched["uninsured"] = "notok"
  /\ Len(requests) = 4

\* C7: whatever loadMetric returns to a panel is a JSON object with the
\* required fields of a MetricDocument, so a chart is only ever built from
\* such a document.
C7_TypedFailure ==
  \A p \in Panels(variant) :
    /\ returned[p] # <<>> =>
         returned[p][1].kind = "object" /\ IsMetricDocument(returned[p][1].doc)
    /\ chart[p] # <<>> => chart[p][1].labels # Undefined

\* C8: a panel's chart is built only after that panel's own load succeeded,
\* and from the document that load returned, which is the snapshot of the
\* panel's own slug.
C8_RenderAfterLoad ==
  \A p \in Panels(variant) :
    chart[p] # <<>> =>
      /\ fetched[p] = "ok"
      /\ status[p] \in {"Rendered", "Failed"}
      /\ returned[p] # <<>>
      /\ returned[p][1].doc \in Snapshots(Slug(p))
      /\ chart[p] = <<makeLineChart(returned[p][1].doc)>>

C8_Witness ==
  /\ variant = "themed"
  /\ status["uninsured"] = "Rendered"
  /\ chart["uninsured"] # <<>>
  /\ chart["uninsured"][1].labels = Field(Slug("uninsured"), "years")
  /\ status["ypll"] = "Rendered"

\* the markup describe wrote, when it wrote any
Written == described # <<>> /\ described[1].html # <<>>

HasQuote(chars) == \E i \in 1..Len(chars) : chars[i] = "\""

C10_Exclusive ==
  \A p \in Panels(variant) : ~(chart[p] # <<>> /\ meta[p] = Fallback(p))

====
